---- MODULE Spec2Model ----
(***************************************************************************)
(* Model of pmon_oled/arduino/display.cpp: the circular graph buffer, the  *)
(* current-to-pixel mapping, the display-message state machine and the     *)
(* three render entry points.                                              *)
(***************************************************************************)
EXTENDS Integers, Sequences, FiniteSets, TLC

\* ------------------------------------------------------------------------
\* Program constants
\* ------------------------------------------------------------------------

\* display.cpp:48  static const uint8 kGraphMaxPoints = 64;
kGraphMaxPoints == 64

\* display_messages::code (display_message.h): the sentinel and the two codes
\* drawCurrentDisplayMessage knows by name.
kNone == 0
kSplashScreen == 1
kAnalysisReset == 2

\* display.cpp:66-67: the clip of the top range.
kMaxMilliAmps == 2000
\* display.cpp:78-80
kA == 30
kB == 7
kC == 23
\* display.cpp:86: return 63 - scalledValue;
kBottomY == 63
\* display.cpp:30-36: the 2X page buffer of the 128x64 device gives 4 drawing
\* passes per picture loop.
kDrawingPasses == 4
\* uint16 arguments (display.cpp:64, 89).
kUint16Max == 65535

\* ------------------------------------------------------------------------
\* Bounds of the model
\* ------------------------------------------------------------------------

\* appendGraphPoint calls in a run of SpecGraph: two full turns of the ring.
MaxAppends == 130
\* setup/clearGraphBuffer calls in a run of SpecGraph, each tried after
\* every ResetStride-th appendGraphPoint call.
MaxResets == 1
ResetStride == 7
\* appendGraphPoint calls in a run of Spec.
MaxMsgAppends == 1
\* setup calls in a run of Spec.
MaxSetups == 1
\* Message codes 0..MaxCode: kNone, the two named codes, one unnamed code.
MaxCode == 3
\* Minimum display times 0..MaxDuration (milliseconds).
MaxDuration == 2
\* The timer is observed up to MaxTime milliseconds after its restart.
MaxTime == 3
\* The n-th sample fed to the graph is (n * RampStep) % RampModulus; for the
\* first FreeAppends samples the largest uint16 may be fed instead.
RampStep == 97
RampModulus == 2500
FreeAppends == 1
\* SpecMap compares the mapping at a and at a + g, g in 0..MaxGap.
MaxGap == 2

Codes == 0..MaxCode
Durations == 0..MaxDuration

\* ------------------------------------------------------------------------
\* State
\* ------------------------------------------------------------------------

VARIABLES
  current_display_message_code,             \* display.cpp:43
  current_display_message_min_time_millis,  \* display.cpp:44
  time_in_current_display_message,          \* display.cpp:45: ms since restart()
  graph_y_points,                           \* display.cpp:49
  graph_first_y_index,                      \* display.cpp:50
  graph_active_y_count,                     \* display.cpp:51
  screen,      \* what the last completed picture loop painted on the display
  lastCall,    \* observation of the most recent call of the public interface
  appended,    \* history: the samples appended since the last clear
  fed,         \* history: number of appendGraphPoint calls so far
  resets,      \* history: number of setup/clearGraphBuffer calls so far
  activation,  \* history: the most recent activateDisplayMessage call
  probe        \* SpecMap: the inputs and outputs of the mapping under test

vars == <<current_display_message_code, current_display_message_min_time_millis,
          time_in_current_display_message, graph_y_points, graph_first_y_index,
          graph_active_y_count, screen, lastCall, appended, fed, resets,
          activation, probe>>

msgVars == <<current_display_message_code, current_display_message_min_time_millis,
             time_in_current_display_message>>
graphVars == <<graph_y_points, graph_first_y_index, graph_active_y_count, appended>>

\* uint8 arithmetic keeps the low 8 bits.
U8(x) == x % 256

\* The record every call leaves in lastCall.
\*   op      the function called ("tick": a millisecond passed instead)
\*   after   for activateDisplayMessage: the op of the step before it
\*   code, dur   the arguments of activateDisplayMessage
\*   prev    current_display_message_code at entry (activateDisplayMessage's
\*           local previous_display_message_code)
\*   active  what isActiveDisplayMessage returned (render calls)
\*   drew    the draw function the call ran in a picture loop, or "none"
\*   loops   number of u8g.firstPage() calls
\*   idx     the indices used on graph_y_points
\*   carry   TRUE iff some 8-bit addition exceeded 255
\*   maxX    the largest x coordinate handed to drawLine for the graph
\*   lines   the line segments <<x0, y0, x1, y1>> drawn between samples in a pass
NoCall ==
  [op |-> "none", after |-> "none", code |-> 0, dur |-> 0, prev |-> 0,
   active |-> FALSE, drew |-> "none", loops |-> 0, idx |-> {}, carry |-> FALSE,
   maxX |-> 0, lines |-> <<>>]

\* The record of a call of op made in the current state.
Call(op) ==
  [NoCall EXCEPT !.op = op, !.prev = current_display_message_code]

\* ------------------------------------------------------------------------
\* Sample buffer
\* ------------------------------------------------------------------------

\* Variant: the index is not advanced.
incrementGraphIndex_stuck(index) == index

\* Variant: the index is advanced without the wrap to 0.
incrementGraphIndex_nowrap(index) == U8(index + 1)

\* display.cpp:58-62
incrementGraphIndex(index) ==
  IF U8(index + 1) >= kGraphMaxPoints THEN 0 ELSE U8(index + 1)

\* The least v with 0.5 + (ln(v) * kB - kC) >= k, for k = 1, 2, ...: the
\* steps of ln as display.cpp:83 rounds it (kB = 7, kC = 23). Every integer
\* v in 30..2030 is more than 1.6e-4 away from a step, far beyond the
\* error of the float evaluation, so the table is what every build computes.
LogSteps ==
  <<29, 34, 39, 45, 51, 59, 68, 79, 91, 104, 120, 139, 160, 184, 213, 245,
    283, 326, 376, 434, 500, 577, 666, 768, 886, 1022, 1178, 1359, 1568,
    1809, 2086, 2406, 2776, 3202, 3694>>

\* display.cpp:83: (int) (0.5f + ((log(v) * kB) - kC)), for the v >= 30 the
\* code passes (v = current_milli_amps + kA).
scalledValue(v) == Cardinality({k \in 1..Len(LogSteps) : LogSteps[k] <= v})

\* Variant: no clip.
ClipTopRange_off(current_milli_amps) == current_milli_amps

\* display.cpp:66-68
ClipTopRange(current_milli_amps) ==
  IF current_milli_amps > kMaxMilliAmps THEN kMaxMilliAmps ELSE current_milli_amps

\* display.cpp:64-87
currentMilliAmpsToDisplayY(current_milli_amps) ==
  U8(kBottomY - scalledValue(ClipTopRange(current_milli_amps) + kA))

\* display.cpp:53-56
clearGraphBuffer ==
  /\ graph_first_y_index' = 0
  /\ graph_active_y_count' = 0
  /\ appended' = <<>>
  /\ lastCall' = Call("clearGraphBuffer")
  /\ UNCHANGED <<msgVars, graph_y_points, screen, activation, probe>>

\* display.cpp:94
IsFull == graph_active_y_count = kGraphMaxPoints

\* display.cpp:101-104: the sum is stored in a uint8 and reduced once.
insertion_index ==
  LET sum == U8(graph_first_y_index + graph_active_y_count)
  IN  IF sum >= kGraphMaxPoints THEN U8(sum - kGraphMaxPoints) ELSE sum

\* display.cpp:89-107
appendGraphPoint(current_milli_amps) ==
  LET y_value == currentMilliAmpsToDisplayY(current_milli_amps) IN
  /\ IF IsFull
       THEN /\ graph_y_points' =
                 [graph_y_points EXCEPT ![graph_first_y_index] = y_value]
            /\ graph_first_y_index' = incrementGraphIndex(graph_first_y_index)
            /\ UNCHANGED graph_active_y_count
            /\ lastCall' = [Call("appendGraphPoint") EXCEPT
                              !.idx = {graph_first_y_index},
                              !.carry = graph_first_y_index + 1 > 255]
       ELSE /\ graph_y_points' =
                 [graph_y_points EXCEPT ![insertion_index] = y_value]
            /\ graph_active_y_count' = U8(graph_active_y_count + 1)
            /\ UNCHANGED graph_first_y_index
            /\ lastCall' = [Call("appendGraphPoint") EXCEPT
                              !.idx = {insertion_index},
                              !.carry =
                                \/ graph_first_y_index + graph_active_y_count > 255
                                \/ graph_active_y_count + 1 > 255]
  /\ appended' = Append(appended, current_milli_amps)
  /\ UNCHANGED <<msgVars, screen, activation, probe>>

\* ------------------------------------------------------------------------
\* Pages
\* ------------------------------------------------------------------------

Max(a, b) == IF a >= b THEN a ELSE b

\* display.cpp:200-218: the text the message page shows for a code; an
\* unnamed code is printed as a number.
MessageText(code) ==
  IF code = kSplashScreen THEN <<"Power Play", "UNO OLED", "Ver 0.100">>
  ELSE IF code = kAnalysisReset THEN <<"Analysis", "Restarted">>
  ELSE <<"Message: ">>

\* display.cpp:194-219 run through the picture loop of display.cpp:282-287.
MessagePage(code) ==
  [kind |-> "message", text |-> MessageText(code),
   number |-> IF code \in {kSplashScreen, kAnalysisReset} THEN -1 ELSE code]

\* display.cpp:111-151 through the picture loop: the labels of the graph page.
GraphPage == [kind |-> "graph", text |-> <<"Current", "Average">>, number |-> -1]

\* display.cpp:155-192 through the picture loop: the labels of the summary page.
SummaryPage == [kind |-> "summary", text |-> <<"I", "Iavg", "Q", "T">>, number |-> -1]

\* The display before the first picture loop.
BlankPage == [kind |-> "blank", text |-> <<>>, number |-> -1]

\* display.cpp:132-144: the loop over the points after the first, from
\* iteration i on. Each iteration adds a step to steps: the index it read,
\* the x it computed and whether one of its 8-bit additions exceeded 255.
RECURSIVE GraphLoop(_, _, _, _)
GraphLoop(i, index, last_x, steps) ==
  IF i >= graph_active_y_count
    THEN steps
    ELSE LET next == U8(index + 1)
             wrapped == IF next >= kGraphMaxPoints THEN 0 ELSE next
             x == U8(last_x + 2)
         IN  GraphLoop(U8(i + 1), wrapped, x,
                       Append(steps,
                              [index |-> wrapped, x |-> x,
                               carry |-> \/ index + 1 > 255
                                         \/ last_x + 2 > 255
                                         \/ i + 1 > 255]))

\* display.cpp:139-145: what the steps of the loop hand to drawLine: a line
\* from each point to the next, then the closing line at last_x + 1.
GraphLines(steps) ==
  [idx |-> {steps[k].index : k \in 1..Len(steps)},
   carry |-> \E k \in 1..Len(steps) : steps[k].carry,
   maxX |-> steps[Len(steps)].x + 1,
   lines |-> [k \in 1..(Len(steps) - 1) |->
                <<steps[k].x, graph_y_points[steps[k].index],
                  steps[k + 1].x, graph_y_points[steps[k + 1].index]>>]]

\* display.cpp:111-151: what one call of drawGraphPage does with the buffer.
\* Stripes 0 and 1 draw text only; stripes 2 and up read
\* graph_y_points[graph_first_y_index] and run the loop.
drawGraphPage(drawing_stripe_index) ==
  IF drawing_stripe_index >= 2
    THEN GraphLines(GraphLoop(1, graph_first_y_index, 0,
                              <<[index |-> graph_first_y_index, x |-> 0,
                                 carry |-> FALSE]>>))
    ELSE [idx |-> {}, carry |-> FALSE, maxX |-> 0, lines |-> <<>>]

\* What the passes of a picture loop did together; drawn[p] is the pass with
\* drawing_stripe_index p. Every pass from 2 on draws the same lines.
AllPasses(drawn) ==
  [idx |-> UNION {drawn[p].idx : p \in DOMAIN drawn},
   carry |-> \E p \in DOMAIN drawn : drawn[p].carry,
   maxX |-> drawn[kDrawingPasses - 1].maxX,
   lines |-> drawn[kDrawingPasses - 1].lines]

\* display.cpp:261-265: the picture loop calls drawGraphPage once per pass,
\* with drawing_stripe_index 0, 1, ...
GraphPictureLoop ==
  AllPasses([p \in 0..(kDrawingPasses - 1) |-> drawGraphPage(p)])

\* ------------------------------------------------------------------------
\* Display message
\* ------------------------------------------------------------------------

\* PassiveTimer::restart() (passive_timer.h)
restart == time_in_current_display_message' = 0

\* PassiveTimer::timeMillis() (passive_timer.h)
timeMillis == time_in_current_display_message

\* A millisecond passes: the timer's reading grows.
Tick ==
  /\ time_in_current_display_message < MaxTime
  /\ time_in_current_display_message' = time_in_current_display_message + 1
  /\ lastCall' = Call("tick")
  /\ activation' = IF activation.code = kNone THEN activation
                   ELSE [activation EXCEPT !.age = activation.age + 1]
  /\ UNCHANGED <<current_display_message_code,
                 current_display_message_min_time_millis,
                 graphVars, screen, probe>>

\* display.cpp:221-229
setup ==
  /\ current_display_message_code' = kNone
  /\ current_display_message_min_time_millis' = 0
  /\ restart
  /\ graph_first_y_index' = 0
  /\ graph_active_y_count' = 0
  /\ appended' = <<>>
  /\ lastCall' = Call("setup")
  /\ activation' = IF activation.code = kNone THEN activation
                   ELSE [activation EXCEPT !.setupSince = TRUE]
  /\ UNCHANGED <<graph_y_points, screen, probe>>

\* Variant: <= for <.
WithinMinTime_orEqual == timeMillis <= current_display_message_min_time_millis

\* Variant: the message expires a millisecond early.
WithinMinTime_early == timeMillis + 1 < current_display_message_min_time_millis

\* display.cpp:238
WithinMinTime == timeMillis < current_display_message_min_time_millis

\* display.cpp:233-244: the value isActiveDisplayMessage returns.
isActiveDisplayMessage ==
  IF current_display_message_code = kNone THEN FALSE ELSE WithinMinTime

\* Variant: an expired message is not marked as done.
CodeAfterActiveCheck_kept == current_display_message_code

\* display.cpp:233-244: current_display_message_code when
\* isActiveDisplayMessage returns.
CodeAfterActiveCheck ==
  IF current_display_message_code = kNone THEN kNone
  ELSE IF WithinMinTime THEN current_display_message_code
  ELSE kNone

\* Variant: the routine renders ignore the message.
RoutineRenderSkipped_never == FALSE

\* display.cpp:248, 271: the early return of the routine render calls.
RoutineRenderSkipped == isActiveDisplayMessage

\* The record of a renderGraphPage call whose picture loop did loop.
GraphCall(loop) ==
  [Call("renderGraphPage") EXCEPT
     !.active = isActiveDisplayMessage, !.drew = "drawGraphPage", !.loops = 1,
     !.idx = loop.idx, !.carry = loop.carry, !.maxX = loop.maxX,
     !.lines = loop.lines]

\* display.cpp:246-266. The two arguments only feed the texts of the page.
renderGraphPage ==
  /\ current_display_message_code' = CodeAfterActiveCheck
  /\ IF RoutineRenderSkipped
       THEN /\ lastCall' = [Call("renderGraphPage") EXCEPT
                              !.active = isActiveDisplayMessage]
            /\ UNCHANGED screen
       ELSE /\ lastCall' = GraphCall(GraphPictureLoop)
            /\ screen' = GraphPage
  /\ UNCHANGED <<current_display_message_min_time_millis,
                 time_in_current_display_message, graphVars, activation, probe>>

\* display.cpp:268-280. The four arguments only feed the texts of the page.
renderSummaryPage ==
  /\ current_display_message_code' = CodeAfterActiveCheck
  /\ IF RoutineRenderSkipped
       THEN /\ lastCall' = [Call("renderSummaryPage") EXCEPT
                              !.active = isActiveDisplayMessage]
            /\ UNCHANGED screen
       ELSE /\ lastCall' = [Call("renderSummaryPage") EXCEPT
                              !.active = isActiveDisplayMessage,
                              !.drew = "drawSummaryPage", !.loops = 1]
            /\ screen' = SummaryPage
  /\ UNCHANGED <<current_display_message_min_time_millis,
                 time_in_current_display_message, graphVars, activation, probe>>

\* display.cpp:282-287
renderCurrentDisplayMessage ==
  /\ screen' = MessagePage(current_display_message_code)
  /\ lastCall' = [Call("renderCurrentDisplayMessage") EXCEPT
                    !.drew = "drawCurrentDisplayMessage", !.loops = 1]
  /\ UNCHANGED <<msgVars, graphVars, activation, probe>>

\* Variant: the comparison with the previous code is missing.
SkipsRedraw_noneOnly(display_message_code, previous_display_message_code) ==
  display_message_code = kNone

\* Variant: the test for kNone is missing.
SkipsRedraw_sameOnly(display_message_code, previous_display_message_code) ==
  display_message_code = previous_display_message_code

\* display.cpp:297
SkipsRedraw(display_message_code, previous_display_message_code) ==
  \/ display_message_code = kNone
  \/ display_message_code = previous_display_message_code

\* display.cpp:289-303
activateDisplayMessage(display_message_code, min_display_time_millis) ==
  LET previous_display_message_code == current_display_message_code IN
  /\ current_display_message_code' = display_message_code
  /\ current_display_message_min_time_millis' = min_display_time_millis
  /\ restart
  /\ IF SkipsRedraw(display_message_code, previous_display_message_code)
       THEN /\ lastCall' = [Call("activateDisplayMessage") EXCEPT
                              !.after = lastCall.op,
                              !.code = display_message_code,
                              !.dur = min_display_time_millis]
            /\ UNCHANGED screen
       ELSE /\ lastCall' = [Call("activateDisplayMessage") EXCEPT
                              !.after = lastCall.op,
                              !.code = display_message_code,
                              !.dur = min_display_time_millis,
                              !.drew = "drawCurrentDisplayMessage", !.loops = 1]
            /\ screen' = MessagePage(display_message_code)
  /\ activation' = [code |-> display_message_code,
                    dur |-> min_display_time_millis,
                    age |-> 0, setupSince |-> FALSE]
  /\ UNCHANGED <<graphVars, probe>>

\* ------------------------------------------------------------------------
\* Specifications
\* ------------------------------------------------------------------------

\* The n-th sample the sampling loop feeds to the graph; the values sweep the
\* range below and above the clip.
InputFor(n) == (n * RampStep) % RampModulus

\* The values the n-th appendGraphPoint call may be given.
Samples(n) == {InputFor(n)} \cup (IF n < FreeAppends THEN {kUint16Max} ELSE {})

NoActivation == [code |-> kNone, dur |-> 0, age |-> 0, setupSince |-> FALSE]

NoProbe == [a |-> 0, b |-> 0, ya |-> 0, yb |-> 0, ytop |-> 0, done |-> FALSE]

\* The statics of display.cpp:43-51 as the C++ runtime zero-initialises them,
\* the timer as its constructor starts it, nothing painted yet.
InitProgram ==
  /\ current_display_message_code = kNone
  /\ current_display_message_min_time_millis = 0
  /\ time_in_current_display_message = 0
  /\ graph_y_points = [i \in 0..(kGraphMaxPoints - 1) |-> 0]
  /\ graph_first_y_index = 0
  /\ graph_active_y_count = 0
  /\ screen = BlankPage
  /\ lastCall = NoCall
  /\ appended = <<>>
  /\ fed = 0
  /\ resets = 0
  /\ activation = NoActivation

Init ==
  /\ InitProgram
  /\ probe = NoProbe

\* The whole interface of display.cpp, with the clock. The message state
\* never reads the samples, so the few appended here follow the ramp.
Next ==
  \/ resets < MaxSetups /\ setup /\ resets' = resets + 1 /\ UNCHANGED fed
  \/ \E c \in Codes, d \in Durations :
       activateDisplayMessage(c, d) /\ UNCHANGED <<fed, resets>>
  \/ renderGraphPage /\ UNCHANGED <<fed, resets>>
  \/ renderSummaryPage /\ UNCHANGED <<fed, resets>>
  \/ renderCurrentDisplayMessage /\ UNCHANGED <<fed, resets>>
  \/ Tick /\ UNCHANGED <<fed, resets>>
  \/ fed < MaxMsgAppends /\ appendGraphPoint(InputFor(fed))
       /\ fed' = fed + 1 /\ UNCHANGED resets
  \/ clearGraphBuffer /\ UNCHANGED <<fed, resets>>

Spec == Init /\ [][Next]_vars

\* The sample buffer on its own: long runs of appendGraphPoint, with resets
\* and graph renders in between. No message is ever activated.
ResetDue == resets < MaxResets /\ fed % ResetStride = 0

NextGraph ==
  \/ ResetDue /\ setup /\ resets' = resets + 1 /\ UNCHANGED fed
  \/ ResetDue /\ clearGraphBuffer /\ resets' = resets + 1 /\ UNCHANGED fed
  \/ /\ fed < MaxAppends
     /\ \E current_milli_amps \in Samples(fed) :
          appendGraphPoint(current_milli_amps)
     /\ fed' = fed + 1 /\ UNCHANGED resets
  \/ renderGraphPage /\ UNCHANGED <<fed, resets>>

SpecGraph == Init /\ [][NextGraph]_vars

\* The mapping on its own: Init draws two currents a <= b, Convert applies
\* currentMilliAmpsToDisplayY to both and to the clip value.
InitMap ==
  /\ InitProgram
  /\ \E a \in 0..kUint16Max, g \in 0..MaxGap :
       /\ a + g <= kUint16Max
       /\ probe = [NoProbe EXCEPT !.a = a, !.b = a + g]

Convert ==
  /\ ~probe.done
  /\ probe' = [probe EXCEPT !.ya = currentMilliAmpsToDisplayY(probe.a),
                            !.yb = currentMilliAmpsToDisplayY(probe.b),
                            !.ytop = currentMilliAmpsToDisplayY(kMaxMilliAmps),
                            !.done = TRUE]
  /\ UNCHANGED <<msgVars, graphVars, screen, lastCall, fed, resets, activation>>

NextMap == Convert

SpecMap == InitMap /\ [][NextMap]_vars

\* ------------------------------------------------------------------------
\* Properties
\* ------------------------------------------------------------------------

RoutineRenders == {"renderGraphPage", "renderSummaryPage"}

\* The buffer read from graph_first_y_index for graph_active_y_count slots,
\* wrapping modulo kGraphMaxPoints.
RingContents ==
  [k \in 1..graph_active_y_count |->
     graph_y_points[(graph_first_y_index + k - 1) % kGraphMaxPoints]]

\* The quantized values of the last min(kGraphMaxPoints, n) of the n samples
\* appended since the last clear, oldest first.
LastAppended ==
  [k \in 1..(IF Len(appended) < kGraphMaxPoints
               THEN Len(appended) ELSE kGraphMaxPoints) |->
     currentMilliAmpsToDisplayY(
       appended[k + (IF Len(appended) < kGraphMaxPoints
                       THEN 0 ELSE Len(appended) - kGraphMaxPoints)])]

\* lines is the polyline through ring, 2 pixels per sample from x = 0.
PolylineThrough(lines, ring) ==
  /\ Len(lines) = (IF Len(ring) = 0 THEN 0 ELSE Len(ring) - 1)
  /\ \A k \in 1..Len(lines) :
       lines[k] = <<2 * (k - 1), ring[k], 2 * k, ring[k + 1]>>

\* C1: after setup/clearGraphBuffer and any number of appendGraphPoint
\* calls, graph_active_y_count is at most 64 and the buffer read from
\* graph_first_y_index holds exactly the quantized values of the last
\* min(64, appended) samples, oldest first; the graph page draws its lines
\* through exactly these values in this order.
C1_RingHoldsLastSamples ==
  /\ graph_active_y_count <= kGraphMaxPoints
  /\ RingContents = LastAppended
  /\ lastCall.op = "renderGraphPage" /\ lastCall.loops = 1
       => PolylineThrough(lastCall.lines, LastAppended)

\* C1 witness: 70 samples appended, the 6 oldest evicted, the graph drawn.
C1_Witness ==
  /\ Len(appended) = 70
  /\ graph_active_y_count = kGraphMaxPoints
  /\ graph_first_y_index = 6
  /\ lastCall.op = "renderGraphPage"
  /\ Len(lastCall.lines) = 63

\* C10: graph_first_y_index < 64 and graph_active_y_count <= 64 in every
\* reachable state; every index used on graph_y_points by a call is in
\* 0..63; no 8-bit addition exceeds 255; no x coordinate drawn for the
\* graph exceeds 127.
C10_IndicesInRange ==
  /\ graph_first_y_index < kGraphMaxPoints
  /\ graph_active_y_count <= kGraphMaxPoints
  /\ lastCall.idx \subseteq 0..(kGraphMaxPoints - 1)
  /\ ~lastCall.carry
  /\ lastCall.maxX <= 127

\* C10 witness: a full buffer whose oldest entry sits in the last slot is
\* drawn; the closing line is at x = 127.
C10_Witness ==
  /\ graph_first_y_index = kGraphMaxPoints - 1
  /\ graph_active_y_count = kGraphMaxPoints
  /\ lastCall.op = "renderGraphPage"
  /\ lastCall.maxX = 127
  /\ lastCall.idx = 0..(kGraphMaxPoints - 1)

\* C2 as stated: after activateDisplayMessage(code, d), code # kNone, and no
\* later activateDisplayMessage call, an evaluation of
\* isActiveDisplayMessage returns true iff fewer than d milliseconds have
\* passed since that call, and one that returns false leaves the stored
\* code kNone.
C2_Original ==
  lastCall.op \in RoutineRenders /\ activation.code # kNone
    => /\ lastCall.active = (activation.age < activation.dur)
       /\ ~lastCall.active => current_display_message_code = kNone

\* C2 amended: the same, provided setup was not called after the
\* activateDisplayMessage call either.
C2_ActiveUntilMinTime ==
  lastCall.op \in RoutineRenders /\ activation.code # kNone
    /\ ~activation.setupSince
    => /\ lastCall.active = (activation.age < activation.dur)
       /\ ~lastCall.active => current_display_message_code = kNone

\* C2 witness: the first evaluation at d milliseconds, d > 0, returned false
\* and reset the stored code.
C2_Witness ==
  /\ lastCall.op \in RoutineRenders
  /\ activation.code # kNone /\ ~activation.setupSince
  /\ activation.dur > 0 /\ activation.age = activation.dur
  /\ lastCall.prev = activation.code
  /\ ~lastCall.active
  /\ current_display_message_code = kNone

\* C3 as stated: activateDisplayMessage(kNone, d) changes neither the stored
\* code, nor the minimum time, nor the timer, and starts no picture loop.
C3_Original ==
  [][lastCall'.op = "activateDisplayMessage" /\ lastCall'.code = kNone
       => UNCHANGED msgVars /\ lastCall'.loops = 0]_vars

\* C3 amended: activateDisplayMessage(kNone, d) starts no picture loop and
\* draws nothing; it stores kNone as the message code and d as the minimum
\* time and restarts the timer.
C3_NoneClearsWithoutRedraw ==
  lastCall.op = "activateDisplayMessage" /\ lastCall.code = kNone
    => /\ lastCall.loops = 0
       /\ lastCall.drew = "none"
       /\ current_display_message_code = kNone
       /\ current_display_message_min_time_millis = lastCall.dur
       /\ time_in_current_display_message = 0

\* C3 witness: activateDisplayMessage(kNone, d), d > 0, called while a
\* message was stored and shown.
C3_Witness ==
  /\ lastCall.op = "activateDisplayMessage" /\ lastCall.code = kNone
  /\ lastCall.prev # kNone
  /\ lastCall.dur > 0
  /\ screen = MessagePage(lastCall.prev)

\* C4: activateDisplayMessage with a code other than kNone that equals the
\* stored code (as right after an activateDisplayMessage with the same code)
\* does not call renderCurrentDisplayMessage; with a code other than kNone
\* that differs from the stored code it calls it, and the display shows the
\* page of the new code.
C4_RedrawIffCodeChanges ==
  lastCall.op = "activateDisplayMessage" /\ lastCall.code # kNone
    => /\ lastCall.prev = lastCall.code
            => lastCall.loops = 0 /\ lastCall.drew = "none"
       /\ lastCall.prev # lastCall.code
            => /\ lastCall.loops = 1
               /\ lastCall.drew = "drawCurrentDisplayMessage"
               /\ screen = MessagePage(lastCall.code)

\* C4 witness: activateDisplayMessage(A, d) right after
\* activateDisplayMessage(A, d'), A # kNone: no second redraw.
C4_Witness ==
  /\ lastCall.op = "activateDisplayMessage"
  /\ lastCall.after = "activateDisplayMessage"
  /\ lastCall.code # kNone
  /\ lastCall.prev = lastCall.code
  /\ lastCall.loops = 0
  /\ screen = MessagePage(lastCall.code)

\* C5: renderGraphPage or renderSummaryPage called while a message is
\* active (stored code # kNone, timer below the minimum time) starts no
\* picture loop and draws nothing; called when no message is active it runs
\* the picture loop with its own draw function and the display shows its
\* page. The message page is drawn only through renderCurrentDisplayMessage.
C5_MessageHasPriority ==
  /\ lastCall.op \in RoutineRenders
       => IF /\ lastCall.prev # kNone
             /\ time_in_current_display_message
                  < current_display_message_min_time_millis
            THEN /\ lastCall.loops = 0 /\ lastCall.drew = "none"
                 /\ lastCall.idx = {} /\ lastCall.lines = <<>>
            ELSE /\ lastCall.loops = 1
                 /\ lastCall.op = "renderGraphPage"
                      => lastCall.drew = "drawGraphPage" /\ screen = GraphPage
                 /\ lastCall.op = "renderSummaryPage"
                      => lastCall.drew = "drawSummaryPage" /\ screen = SummaryPage
  /\ lastCall.drew = "drawCurrentDisplayMessage"
       => lastCall.op \in {"renderCurrentDisplayMessage", "activateDisplayMessage"}

\* C5 witness: renderGraphPage returned at once under an active message,
\* whose page is still on the display.
C5_Witness ==
  /\ lastCall.op = "renderGraphPage"
  /\ lastCall.prev # kNone
  /\ time_in_current_display_message < current_display_message_min_time_millis
  /\ lastCall.loops = 0
  /\ screen = MessagePage(current_display_message_code)

\* C6 as stated: currentMilliAmpsToDisplayY maps 0 to y = 63, 2000 to
\* y = 32, and 5000 to what it maps 2000 to.
C6_Claim ==
  probe.done
    => /\ probe.a = 0 => probe.ya = 63
       /\ probe.a = 2000 => probe.ya = 32
       /\ probe.a = 5000 => probe.ya = probe.ytop

\* C7: currentMilliAmpsToDisplayY does not increase from a to b when
\* a <= b <= 2000, and maps every uint16 input above 2000 to what it maps
\* 2000 to.
C7_MonotoneAndClipped ==
  probe.done
    => /\ probe.a <= probe.b /\ probe.b <= kMaxMilliAmps => probe.ya >= probe.yb
       /\ probe.a > kMaxMilliAmps => probe.ya = probe.ytop

\* C7 witness: two inputs below the clip where the output strictly falls.
C7_Witness ==
  /\ probe.done
  /\ probe.a < probe.b /\ probe.b <= kMaxMilliAmps
  /\ probe.ya > probe.yb

\* C8: the stored code goes from a code other than kNone to kNone only in a
\* renderGraphPage/renderSummaryPage call made when the timer has reached
\* the minimum time, or in an activateDisplayMessage or setup call; a
\* millisecond passing, appendGraphPoint, clearGraphBuffer and
\* renderCurrentDisplayMessage leave the stored code and the minimum time
\* unchanged.
C8_ExpiryIsLazy ==
  [][/\ current_display_message_code # kNone
          /\ current_display_message_code' = kNone
        => \/ /\ lastCall'.op \in RoutineRenders
              /\ time_in_current_display_message
                   >= current_display_message_min_time_millis
           \/ lastCall'.op \in {"activateDisplayMessage", "setup"}
     /\ lastCall'.op \in {"tick", "appendGraphPoint", "clearGraphBuffer",
                          "renderCurrentDisplayMessage"}
        => UNCHANGED <<current_display_message_code,
                       current_display_message_min_time_millis>>]_vars

\* C8 witness: a message past its minimum time is still stored after
\* renderCurrentDisplayMessage.
C8_Witness ==
  /\ current_display_message_code # kNone
  /\ time_in_current_display_message > current_display_message_min_time_millis
  /\ lastCall.op = "renderCurrentDisplayMessage"

\* C9: whenever the stored code is not kNone, the page last painted on the
\* display is the message page of exactly that code.
C9_StoredMessageIsShown ==
  current_display_message_code # kNone
    => screen = MessagePage(current_display_message_code)

\* C9 witness: a message is re-activated after time has passed, and the
\* redraw is skipped.
C9_Witness ==
  /\ current_display_message_code # kNone
  /\ lastCall.op = "activateDisplayMessage"
  /\ lastCall.after = "tick"
  /\ lastCall.prev = current_display_message_code
  /\ lastCall.loops = 0

====
